---- MODULE Spec2Model ----
(***************************************************************************)
(* A model of ninja-builder (src/src/index.ts, src/src/util.ts): the       *)
(* NinjaBuildFile document, its append operations, the rendering of its    *)
(* nodes to a Writable, and the escape utility.                            *)
(*                                                                         *)
(* JavaScript values are tagged records.  Strings and booleans are         *)
(* primitives; arrays and plain objects live in `heap` and are held by    *)
(* reference, as in the language, so that an object the caller passed to   *)
(* an operation and the object a node holds are the same heap cell unless  *)
(* the code copies it.                                                     *)
(***************************************************************************)
EXTENDS Naturals, Sequences, FiniteSets, TLC

VARIABLES
  heap,     \* the arrays and plain objects created by the caller, by reference
  options,  \* NinjaBuildFile.options (index.ts:50)
  nodes,    \* NinjaBuildFile.nodes (index.ts:48)
  ret,      \* what the last append call returned
  calls,    \* the write() calls received by the sink of the last serialization
  thrown,   \* whether the last serialization raised an error to its caller
  out,      \* the string returned by the last toString()
  last,     \* the operation performed last
  again,    \* whether the operation before the last was a serialization too
  nmut,     \* how many times the caller has changed an object it passed
  input,    \* the argument of the last escape() call (a sequence of characters)
  escaped   \* the result of the last escape() call (a sequence of characters)

vars == <<heap, options, nodes, ret, calls, thrown, out, last, again, nmut, input, escaped>>

-----------------------------------------------------------------------------
(* Bounds of the model.                                                    *)

MaxNodes == 2       \* append calls per document
MaxAccepted == 1    \* writes a refusing sink accepts before it returns false
MaxMutations == 1   \* changes the caller makes to objects it passed
MaxRuleOpts == 2    \* properties of a rule's options object
MaxBindings == 2    \* entries of an edge's extra-bindings object
MaxLen == 3         \* characters of an escape() argument

-----------------------------------------------------------------------------
(* JavaScript values.                                                      *)

Undefined == [t |-> "undefined"]
Str(x) == [t |-> "string", v |-> x]
Bool(b) == [t |-> "boolean", b |-> b]
Ref(r) == [t |-> "object", r |-> r]

\* What the caller writes as an argument: an array literal or an object
\* literal (its properties in the order written); evaluating it allocates.
ArrayLit(items) == [t |-> "arrayLiteral", items |-> items]
ObjectLit(props) == [t |-> "objectLiteral", props |-> props]
Prop(k, v) == [k |-> k, v |-> v]

\* Evaluating the properties of an object literal, left to right.
RECURSIVE EvalProps(_, _, _, _)
EvalProps(h, props, i, acc) ==
  IF i > Len(props) THEN [heap |-> h, props |-> acc]
  ELSE LET p == props[i] IN
       IF p.v.t = "arrayLiteral"
       THEN EvalProps(Append(h, [kind |-> "array", items |-> p.v.items]),
                      props, i + 1, Append(acc, Prop(p.k, Ref(Len(h) + 1))))
       ELSE EvalProps(h, props, i + 1, Append(acc, p))

\* Evaluating an argument expression: primitives are passed by value, an
\* array or object literal becomes a new heap cell passed by reference.
Eval(h, lit) ==
  CASE lit.t = "arrayLiteral" ->
         [heap |-> Append(h, [kind |-> "array", items |-> lit.items]),
          val |-> Ref(Len(h) + 1)]
    [] lit.t = "objectLiteral" ->
         LET e == EvalProps(h, lit.props, 1, <<>>) IN
         [heap |-> Append(e.heap, [kind |-> "object", props |-> e.props]),
          val |-> Ref(Len(e.heap) + 1)]
    [] OTHER -> [heap |-> h, val |-> lit]

\* x == null (undefined or null)
IsNullish(v) == v.t = "undefined"

\* The truthiness of a value in a condition.
Truthy(v) ==
  CASE v.t = "undefined" -> FALSE
    [] v.t = "string" -> v.v # ""
    [] v.t = "boolean" -> v.b
    [] OTHER -> TRUE

\* obj?.key : undefined when obj is undefined or has no such property.
GetProp(h, obj, key) ==
  IF obj.t # "object" THEN Undefined
  ELSE LET ps == h[obj.r].props
           at == {i \in 1..Len(ps) : ps[i].k = key}
       IN IF at = {} THEN Undefined ELSE ps[CHOOSE i \in at : TRUE].v

\* The decimal digits, with their value.
Digit ==
  ("0" :> 0) @@ ("1" :> 1) @@ ("2" :> 2) @@ ("3" :> 3) @@ ("4" :> 4)
  @@ ("5" :> 5) @@ ("6" :> 6) @@ ("7" :> 7) @@ ("8" :> 8) @@ ("9" :> 9)

CharAt(k, i) == SubSeq(k, i, i)

\* The number written by characters i..j of k (all of them digits).
RECURSIVE DigitsValue(_, _, _)
DigitsValue(k, i, j) ==
  IF j < i THEN 0 ELSE DigitsValue(k, i, j - 1) * 10 + Digit[CharAt(k, j)]

\* A canonical numeric string: digits only, no leading zero except "0".
IsCanonicalNumeric(k) ==
  /\ Len(k) >= 1
  /\ \A i \in 1..Len(k) : CharAt(k, i) \in DOMAIN Digit
  /\ Len(k) > 1 => CharAt(k, 1) # "0"

\* The value of a numeric string in two parts: its last five digits, and
\* the digits before them.
IndexLo(k) == DigitsValue(k, IF Len(k) > 5 THEN Len(k) - 4 ELSE 1, Len(k))
IndexHi(k) == DigitsValue(k, 1, Len(k) - 5)

\* A property name that is an array index: a canonical numeric string
\* whose value is at most 2^32 - 2 = 4294967294.
IsArrayIndex(k) ==
  /\ IsCanonicalNumeric(k)
  /\ Len(k) <= 10
  /\ \/ IndexHi(k) < 42949
     \/ IndexHi(k) = 42949 /\ IndexLo(k) <= 67294

\* Numeric order of two array indices.
IndexLeq(a, b) ==
  \/ IndexHi(a) < IndexHi(b)
  \/ IndexHi(a) = IndexHi(b) /\ IndexLo(a) <= IndexLo(b)

RECURSIVE SelectSeq2(_, _)
SelectSeq2(ps, isIndex) ==
  IF ps = <<>> THEN <<>>
  ELSE IF IsArrayIndex(Head(ps).k) = isIndex
       THEN <<Head(ps)>> \o SelectSeq2(Tail(ps), isIndex)
       ELSE SelectSeq2(Tail(ps), isIndex)

RECURSIVE SortByIndex(_)
SortByIndex(ps) ==
  IF ps = <<>> THEN <<>>
  ELSE LET m == CHOOSE i \in 1..Len(ps) :
                  \A j \in 1..Len(ps) : IndexLeq(ps[i].k, ps[j].k)
       IN <<ps[m]>> \o SortByIndex(SubSeq(ps, 1, m - 1) \o SubSeq(ps, m + 1, Len(ps)))

\* Object.entries(obj ?? {}): own properties, array-index names first in
\* ascending numeric order, then the other names in insertion order.
ObjectEntries(h, obj) ==
  IF IsNullish(obj) THEN <<>>
  ELSE LET ps == h[obj.r].props
       IN SortByIndex(SelectSeq2(ps, TRUE)) \o SelectSeq2(ps, FALSE)

\* Array.prototype.join
RECURSIVE Join(_, _)
Join(items, sep) ==
  IF items = <<>> THEN ""
  ELSE IF Len(items) = 1 THEN items[1]
  ELSE items[1] \o sep \o Join(Tail(items), sep)

-----------------------------------------------------------------------------
(* Nodes and their rendering.  A writeTo yields the chunks it hands to     *)
(* w.write, one per call, in call order.                                   *)

INDENT == "  "

RawNode(string) == [type |-> "Raw", string |-> string]
BindingNode(name, value, indent) ==
  [type |-> "Binding", name |-> name, value |-> value, indent |-> indent]
RuleNode(name, command, opts) ==
  [type |-> "Rule", name |-> name, command |-> command, options |-> opts]
EdgeNode(outputs, rule, inputs, opts, bindings) ==
  [type |-> "Edge", outputs |-> outputs, rule |-> rule, inputs |-> inputs,
   options |-> opts, bindings |-> bindings]

RawWriteTo(n) == <<n.string \o "\n">>

BindingWriteTo(n) == <<n.indent \o n.name \o " = " \o n.value \o "\n">>

\* f.length of a string or an array
LengthOf(h, f) == IF f.t = "string" THEN Len(f.v) ELSE Len(h[f.r].items)

fileListDroppingEmptyCheck(h, f, separator) ==
  IF IsNullish(f) THEN ""
  ELSE LET arr == IF f.t = "string" THEN <<f.v>> ELSE h[f.r].items
           joined == Join(arr, " ")
       IN IF ~IsNullish(separator) /\ separator.v # ""
          THEN " " \o separator.v \o " " \o joined
          ELSE joined

fileList(h, f, separator) ==
  IF IsNullish(f) \/ LengthOf(h, f) = 0 THEN ""
  ELSE LET arr == IF f.t = "string" THEN <<f.v>> ELSE h[f.r].items
           joined == Join(arr, " ")
       IN IF ~IsNullish(separator) /\ separator.v # ""
          THEN " " \o separator.v \o " " \o joined
          ELSE joined

RECURSIVE RuleOptionLines(_, _)
RuleOptionLines(entries, i) ==
  IF i > Len(entries) THEN <<>>
  ELSE LET opt == entries[i].k
           value == entries[i].v
       IN (IF value.t = "boolean"
           THEN (IF value.b THEN BindingWriteTo(BindingNode(opt, "1", INDENT))
                 ELSE <<>>)
           ELSE BindingWriteTo(BindingNode(opt, value.v, INDENT)))
          \o RuleOptionLines(entries, i + 1)

RECURSIVE RuleOptionLinesZero(_, _)
RuleOptionLinesZero(entries, i) ==
  IF i > Len(entries) THEN <<>>
  ELSE LET opt == entries[i].k
           value == entries[i].v
       IN (IF value.t = "boolean"
           THEN BindingWriteTo(BindingNode(opt, IF value.b THEN "1" ELSE "0", INDENT))
           ELSE BindingWriteTo(BindingNode(opt, value.v, INDENT)))
          \o RuleOptionLinesZero(entries, i + 1)

RuleWriteToZero(h, n) ==
  <<"rule " \o n.name \o "\n">>
  \o BindingWriteTo(BindingNode("command", n.command, INDENT))
  \o RuleOptionLinesZero(ObjectEntries(h, n.options), 1)

RuleWriteTo(h, n) ==
  <<"rule " \o n.name \o "\n">>
  \o BindingWriteTo(BindingNode("command", n.command, INDENT))
  \o RuleOptionLines(ObjectEntries(h, n.options), 1)

RECURSIVE EdgeBindingLines(_, _)
EdgeBindingLines(entries, i) ==
  IF i > Len(entries) THEN <<>>
  ELSE BindingWriteTo(BindingNode(entries[i].k, entries[i].v.v, INDENT))
       \o EdgeBindingLines(entries, i + 1)

EdgeWriteToNullCheck(h, n) ==
  LET outputs == fileList(h, n.outputs, Undefined)
                 \o fileList(h, GetProp(h, n.options, "implicitOuts"), Str("|"))
      inputs == fileList(h, n.inputs, Undefined)
                \o fileList(h, GetProp(h, n.options, "implicitDeps"), Str("|"))
                \o fileList(h, GetProp(h, n.options, "orderDeps"), Str("||"))
                \o fileList(h, GetProp(h, n.options, "validations"), Str("|@"))
      dyndep == GetProp(h, n.options, "dyndep")
      pool == GetProp(h, n.options, "pool")
  IN <<"build " \o outputs \o ": " \o n.rule \o " " \o inputs \o "\n">>
     \o (IF ~IsNullish(dyndep)
         THEN BindingWriteTo(BindingNode("dyndep", dyndep.v, INDENT)) ELSE <<>>)
     \o (IF ~IsNullish(pool)
         THEN BindingWriteTo(BindingNode("pool", pool.v, INDENT)) ELSE <<>>)
     \o EdgeBindingLines(ObjectEntries(h, n.bindings), 1)

EdgeWriteTo(h, n) ==
  LET outputs == fileList(h, n.outputs, Undefined)
                 \o fileList(h, GetProp(h, n.options, "implicitOuts"), Str("|"))
      inputs == fileList(h, n.inputs, Undefined)
                \o fileList(h, GetProp(h, n.options, "implicitDeps"), Str("|"))
                \o fileList(h, GetProp(h, n.options, "orderDeps"), Str("||"))
                \o fileList(h, GetProp(h, n.options, "validations"), Str("|@"))
      dyndep == GetProp(h, n.options, "dyndep")
      pool == GetProp(h, n.options, "pool")
  IN <<"build " \o outputs \o ": " \o n.rule \o " " \o inputs \o "\n">>
     \o (IF Truthy(dyndep)
         THEN BindingWriteTo(BindingNode("dyndep", dyndep.v, INDENT)) ELSE <<>>)
     \o (IF Truthy(pool)
         THEN BindingWriteTo(BindingNode("pool", pool.v, INDENT)) ELSE <<>>)
     \o EdgeBindingLines(ObjectEntries(h, n.bindings), 1)

\* node.writeTo(w), dispatched on the node's class
NodeWriteTo(h, n) ==
  CASE n.type = "Raw" -> RawWriteTo(n)
    [] n.type = "Binding" -> BindingWriteTo(n)
    [] n.type = "Rule" -> RuleWriteTo(h, n)
    [] n.type = "Edge" -> EdgeWriteTo(h, n)

RECURSIVE WriteNodes(_, _)
WriteNodes(h, list) ==
  IF list = <<>> THEN <<>>
  ELSE NodeWriteTo(h, Head(list)) \o WriteNodes(h, Tail(list))

preamble(h, opts) ==
  LET requiredVersion == GetProp(h, opts, "requiredVersion")
      builddir == GetProp(h, opts, "builddir")
  IN (IF ~IsNullish(requiredVersion)
      THEN <<BindingNode("ninja_required_version", requiredVersion.v, "")>>
      ELSE <<>>)
     \o (IF ~IsNullish(builddir)
         THEN <<BindingNode("builddir", builddir.v, "")>> ELSE <<>>)

postamble(h, opts) ==
  LET default == GetProp(h, opts, "default")
  IN IF ~IsNullish(default)
     THEN <<RawNode("default " \o fileList(h, default, Undefined))>>
     ELSE <<>>

NinjaBuildFileWriteToDefaultFirst(h, opts, ns) ==
  WriteNodes(h, preamble(h, opts) \o postamble(h, opts) \o ns)

\* NinjaBuildFile.writeTo: the chunks handed to w.write, in order
NinjaBuildFileWriteTo(h, opts, ns) ==
  WriteNodes(h, preamble(h, opts) \o ns \o postamble(h, opts))

-----------------------------------------------------------------------------
(* The sink (util.ts).  A write is recorded with what write() returned.    *)

\* StringWritable.write: pushes the chunk and returns true
StringWritableWrite(cs, chunk) == Append(cs, [chunk |-> chunk, ok |-> TRUE])

\* A Writable that accepts `limit` writes and returns false from then on
\* (the interface lets write() report that the chunk was not accepted).
RefusingWrite(cs, chunk, limit) ==
  Append(cs, [chunk |-> chunk, ok |-> Len(cs) < limit])

\* The writes of one serialization into a StringWritable.
RECURSIVE WriteAllToString(_, _)
WriteAllToString(cs, chunks) ==
  IF chunks = <<>> THEN cs
  ELSE WriteAllToString(StringWritableWrite(cs, Head(chunks)), Tail(chunks))

\* The writes of one serialization into a refusing sink: every writeTo calls
\* w.write and drops what it returns, so the loop goes on after a refusal.
RECURSIVE WriteAll(_, _, _)
WriteAll(cs, chunks, limit) ==
  IF chunks = <<>> THEN cs
  ELSE WriteAll(RefusingWrite(cs, Head(chunks), limit), Tail(chunks), limit)

Chunks(cs) == [i \in 1..Len(cs) |-> cs[i].chunk]

\* StringWritable.toString: this.chunks.join('')
StringWritableToString(cs) == Join(Chunks(cs), "")

-----------------------------------------------------------------------------
(* The arguments the caller passes.                                        *)

CtorArgs ==
  { Undefined,
    ObjectLit(<<Prop("requiredVersion", Str("1.7")), Prop("default", Str("hello"))>>),
    ObjectLit(<<Prop("requiredVersion", Str("1.7")), Prop("builddir", Str("dist")),
                Prop("default", ArrayLit(<<"foo", "bar">>))>>) }

BindArgs == { <<"cflags", "-Wall">> }

RawArgs == { "# comment" }

RuleArgs ==
  { <<"cc", "cc $in -o $out", ObjectLit(<<Prop("generator", Bool(TRUE)),
                                   Prop("description", Str("CC"))>>)>> }

BuildArgs ==
  { <<Str("hello"), "cc", Str("hello.c"), Undefined, Undefined>>,
    <<ArrayLit(<<>>), "nope", ArrayLit(<<>>),
      ObjectLit(<<Prop("implicitDeps", ArrayLit(<<"a.h">>)), Prop("dyndep", Str("dd"))>>),
      ObjectLit(<<Prop("depth", Str("1"))>>)>> }

\* What the caller may later assign to a property of an object it created.
CallerAssignments == { <<"builddir", Str("out")>>, <<"pool", Str("link")>> }

-----------------------------------------------------------------------------
(* The operations.                                                         *)

NoSink == <<>>

Serializations == {"toString", "writeTo"}
Appends == {"bind", "rule", "build", "raw"}

\* new NinjaBuildFile(options): the options object is kept by reference.
Construct(lit) ==
  LET e == Eval(<<>>, lit) IN
  /\ heap = e.heap
  /\ options = e.val
  /\ nodes = <<>>
  /\ ret = "none"
  /\ calls = NoSink
  /\ thrown = FALSE
  /\ out = ""
  /\ last = "new"
  /\ again = FALSE
  /\ nmut = 0
  /\ input = <<>>
  /\ escaped = <<>>

PushNodeFront(ns, n) == <<n>> \o ns

\* this.nodes.push(node)
PushNode(ns, n) == Append(ns, n)

Appended(op) ==
  /\ ret' = "this"
  /\ last' = op
  /\ again' = FALSE
  /\ calls' = NoSink
  /\ thrown' = FALSE
  /\ out' = ""
  /\ UNCHANGED <<options, nmut, input, escaped>>

bind(name, value) ==
  /\ Len(nodes) < MaxNodes
  /\ nodes' = PushNode(nodes, BindingNode(name, value, ""))
  /\ heap' = heap
  /\ Appended("bind")

rule(name, command, optsLit) ==
  /\ Len(nodes) < MaxNodes
  /\ LET e == Eval(heap, optsLit) IN
     /\ heap' = e.heap
     /\ nodes' = PushNode(nodes, RuleNode(name, command, e.val))
  /\ Appended("rule")

build(outputsLit, ruleName, inputsLit, optsLit, bindingsLit) ==
  /\ Len(nodes) < MaxNodes
  /\ LET e1 == Eval(heap, outputsLit)
         e2 == Eval(e1.heap, inputsLit)
         e3 == Eval(e2.heap, optsLit)
         e4 == Eval(e3.heap, bindingsLit)
     IN /\ heap' = e4.heap
        /\ nodes' = PushNode(nodes, EdgeNode(e1.val, ruleName, e2.val, e3.val, e4.val))
  /\ Appended("build")

raw(string) ==
  /\ Len(nodes) < MaxNodes
  /\ nodes' = PushNode(nodes, RawNode(string))
  /\ heap' = heap
  /\ Appended("raw")

\* A toString() that keeps the preamble and postamble nodes in this.nodes.
toStringKeepingNodes ==
  /\ calls' = WriteAllToString(<<>>, NinjaBuildFileWriteTo(heap, options, nodes))
  /\ out' = StringWritableToString(calls')
  /\ thrown' = FALSE
  /\ last' = "toString"
  /\ again' = (last \in Serializations)
  /\ nodes' = preamble(heap, options) \o nodes \o postamble(heap, options)
  /\ UNCHANGED <<heap, options, ret, nmut, input, escaped>>

\* NinjaNode.toString() on the document: writeTo a new StringWritable.
toString ==
  /\ calls' = WriteAllToString(<<>>, NinjaBuildFileWriteTo(heap, options, nodes))
  /\ out' = StringWritableToString(calls')
  /\ thrown' = FALSE
  /\ last' = "toString"
  /\ again' = (last \in Serializations)
  /\ UNCHANGED <<heap, options, nodes, ret, nmut, input, escaped>>

\* NinjaBuildFile.writeTo(w) with a sink that refuses after `limit` writes.
writeTo(limit) ==
  /\ calls' = WriteAll(<<>>, NinjaBuildFileWriteTo(heap, options, nodes), limit)
  /\ thrown' = FALSE
  /\ out' = ""
  /\ last' = "writeTo"
  /\ again' = (last \in Serializations)
  /\ UNCHANGED <<heap, options, nodes, ret, nmut, input, escaped>>

SetProp(ps, k, v) ==
  IF \E i \in 1..Len(ps) : ps[i].k = k
  THEN [i \in 1..Len(ps) |-> IF ps[i].k = k THEN Prop(k, v) ELSE ps[i]]
  ELSE Append(ps, Prop(k, v))

\* The caller changes an array or object it created earlier and passed to
\* the constructor, rule or build: arr.push(x) or obj[k] = v.
CallerMutate(r) ==
  /\ nmut < MaxMutations
  /\ \/ /\ heap[r].kind = "array"
        /\ heap' = [heap EXCEPT ![r].items = Append(@, "extra")]
     \/ /\ heap[r].kind = "object"
        /\ \E a \in CallerAssignments :
             heap' = [heap EXCEPT ![r].props = SetProp(@, a[1], a[2])]
  /\ nmut' = nmut + 1
  /\ last' = "mutate"
  /\ again' = FALSE
  /\ calls' = NoSink
  /\ thrown' = FALSE
  /\ out' = ""
  /\ UNCHANGED <<options, nodes, ret, input, escaped>>

Init == \E lit \in CtorArgs : Construct(lit)

Next ==
  \/ \E a \in BindArgs : bind(a[1], a[2])
  \/ \E a \in RuleArgs : rule(a[1], a[2], a[3])
  \/ \E a \in BuildArgs : build(a[1], a[2], a[3], a[4], a[5])
  \/ \E a \in RawArgs : raw(a)
  \/ toString
  \/ \E limit \in 0..MaxAccepted : writeTo(limit)
  \/ \E r \in 1..Len(heap) : CallerMutate(r)

Spec == Init /\ [][Next]_vars

-----------------------------------------------------------------------------
(* Properties of the document (checked under Spec).                        *)

\* The values of a string-or-array option, as a sequence of strings.
ValuesOf(h, v) ==
  CASE v.t = "undefined" -> <<>>
    [] v.t = "string" -> <<v.v>>
    [] OTHER -> h[v.r].items

Configured(key) == options.t = "object" /\ \E i \in 1..Len(heap[options.r].props) :
                                             heap[options.r].props[i].k = key

ConfiguredValue(key) ==
  LET ps == heap[options.r].props
  IN ps[CHOOSE i \in 1..Len(ps) : ps[i].k = key].v

ExpectedDocument ==
  (IF Configured("requiredVersion")
   THEN <<"ninja_required_version = " \o ConfiguredValue("requiredVersion").v \o "\n">>
   ELSE <<>>)
  \o (IF Configured("builddir")
      THEN <<"builddir = " \o ConfiguredValue("builddir").v \o "\n">> ELSE <<>>)
  \o WriteNodes(heap, nodes)
  \o (IF Configured("default")
      THEN <<"default " \o Join(ValuesOf(heap, ConfiguredValue("default")), " ") \o "\n">>
      ELSE <<>>)

\* C1: the chunks a serialization writes are the version binding (if
\* configured), the builddir binding (if configured), the appended nodes in
\* append order, and the default line (if configured) last, and nothing
\* else; a document with no options and no nodes serializes to "".
C1_SerializedOrder ==
  /\ last \in Serializations => Chunks(calls) = ExpectedDocument
  /\ (last = "toString" /\ nodes = <<>> /\ ~Configured("requiredVersion")
        /\ ~Configured("builddir") /\ ~Configured("default")) => out = ""

C1_Witness ==
  /\ last = "toString"
  /\ Len(nodes) = 2
  /\ nodes[1].type = "Edge" /\ nodes[2].type = "Binding"
  /\ Configured("requiredVersion") /\ Configured("builddir") /\ Configured("default")
  /\ Len(calls) >= 5
  /\ calls[Len(calls)].chunk = "default foo bar\n"

\* C2: once write() has returned false during writeTo, no further write is
\* made and the failure is propagated to the caller of writeTo.
C2_StopsOnRefusedWrite ==
  last = "writeTo" =>
    \A i \in 1..Len(calls) : ~calls[i].ok => (i = Len(calls) /\ thrown)

\* C3: a serialization leaves the node list, the options and the objects
\* they refer to unchanged, and a serialization that directly follows
\* another one writes the same chunks and returns the same string.
C3_SerializationPure ==
  [][ last' \in Serializations =>
        /\ nodes' = nodes /\ options' = options /\ heap' = heap
        /\ last \in Serializations => Chunks(calls') = Chunks(calls)
        /\ (last = "toString" /\ last' = "toString") => out' = out ]_vars

C3_Witness ==
  /\ again /\ last = "toString"
  /\ Len(nodes) = 2 /\ nodes[1].type = "Rule"
  /\ Configured("default")
  /\ Len(calls) >= 4

\* C4: an append returns the document, adds exactly one node at the end and
\* leaves the earlier nodes and their positions as they were; no step
\* removes or reorders a node.
C4_AppendOnly ==
  [][ /\ Len(nodes') >= Len(nodes)
      /\ SubSeq(nodes', 1, Len(nodes)) = nodes
      /\ last' \in Appends =>
           /\ Len(nodes') = Len(nodes) + 1
           /\ ret' = "this"
           /\ ~thrown' ]_vars

\* an edge naming a rule no rule node declares, with empty output and input
\* lists, appended twice
C4_Witness ==
  /\ last = "build" /\ ret = "this"
  /\ Len(nodes) = 2
  /\ \A i \in 1..2 :
       /\ nodes[i].type = "Edge" /\ nodes[i].rule = "nope"
       /\ heap[nodes[i].outputs.r].items = <<>>
       /\ heap[nodes[i].inputs.r].items = <<>>

\* C10: what an appended node, the preamble and the postamble render to
\* never changes after the append, whatever the caller does afterwards.
C10_NodesImmutable ==
  [][ /\ \A i \in 1..Len(nodes) : NodeWriteTo(heap', nodes[i]) = NodeWriteTo(heap, nodes[i])
      /\ WriteNodes(heap', preamble(heap', options')) = WriteNodes(heap, preamble(heap, options))
      /\ WriteNodes(heap', postamble(heap', options')) = WriteNodes(heap, postamble(heap, options))
    ]_vars

-----------------------------------------------------------------------------
(* Rule rendering: a document holding one rule, over every options object  *)
(* of up to MaxRuleOpts properties (checked under SpecRule).               *)

Absent == [t |-> "absent"]

\* The sequences of up to n properties drawn from `props`, no name twice.
PropSeqs(props, n) ==
  { q \in UNION { [1..k -> props] : k \in 0..n } :
      \A i, j \in 1..Len(q) : i # j => q[i].k # q[j].k }

RuleProps ==
  { Prop("description", Str("CC")), Prop("description", Str("")),
    Prop("depfile", Str("$out.d")),
    Prop("generator", Bool(TRUE)), Prop("generator", Bool(FALSE)),
    Prop("restat", Bool(TRUE)), Prop("restat", Bool(FALSE)) }

RuleArgsAll ==
  { <<n, "cc $in -o $out", o>> :
      n \in {"cc", "link"},
      o \in {Undefined} \cup { ObjectLit(q) : q \in PropSeqs(RuleProps, MaxRuleOpts) } }

AppendOneRule == \E a \in RuleArgsAll : nodes = <<>> /\ rule(a[1], a[2], a[3])

InitEmpty == Construct(Undefined)

NextRule == AppendOneRule \/ toString

SpecRule == InitEmpty /\ [][NextRule]_vars

\* The properties the caller supplied, in the order it supplied them.
Supplied(h, obj) == IF obj.t = "object" THEN h[obj.r].props ELSE <<>>

RECURSIVE ExpectedRuleOptions(_)
ExpectedRuleOptions(ps) ==
  IF ps = <<>> THEN <<>>
  ELSE LET p == Head(ps)
       IN (CASE p.v.t = "string" -> <<"  " \o p.k \o " = " \o p.v.v \o "\n">>
             [] p.v.t = "boolean" /\ p.v.b -> <<"  " \o p.k \o " = 1\n">>
             [] OTHER -> <<>>)
          \o ExpectedRuleOptions(Tail(ps))

OneNodeWritten(type) ==
  /\ last = "toString"
  /\ Len(nodes) = 1
  /\ nodes[1].type = type

\* C5: a rule renders as `rule <name>`, the indented command line first,
\* then one indented line per supplied option in the order supplied: a
\* string as `<key> = <value>`, a boolean as `<key> = 1` only when true;
\* `<key> = 0` is never written; with no options it is exactly two lines.
C5_RuleRendering ==
  OneNodeWritten("Rule") =>
    LET n == nodes[1]
        ps == Supplied(heap, n.options)
    IN /\ Chunks(calls) = <<"rule " \o n.name \o "\n",
                            "  command = " \o n.command \o "\n">>
                          \o ExpectedRuleOptions(ps)
       /\ \A i \in 1..Len(calls), j \in 1..Len(ps) :
            calls[i].chunk # "  " \o ps[j].k \o " = 0\n"
       /\ ps = <<>> => out = "rule " \o n.name \o "\n  command = " \o n.command \o "\n"

C5_Witness ==
  /\ OneNodeWritten("Rule")
  /\ Supplied(heap, nodes[1].options) =
       <<Prop("generator", Bool(FALSE)), Prop("description", Str("CC"))>>
  /\ Len(calls) = 3

-----------------------------------------------------------------------------
(* Edge rendering: a document holding one edge (checked under SpecEdge).   *)

OptProp(k, choice) == IF choice = Absent THEN <<>> ELSE <<Prop(k, choice)>>

OptionsLit(props) == IF props = <<>> THEN Undefined ELSE ObjectLit(props)

\* Edges that vary the file lists.
BuildArgsLists ==
  { <<outs, "cc", ins,
      OptionsLit(OptProp("implicitOuts", io) \o OptProp("implicitDeps", id)
                 \o OptProp("orderDeps", od) \o OptProp("validations", va)),
      Undefined>> :
      outs \in {Str("foo"), ArrayLit(<<>>), ArrayLit(<<"a", "b">>)},
      ins \in {Str("bar"), Str(""), ArrayLit(<<>>), ArrayLit(<<"x", "y">>)},
      io \in {Absent, ArrayLit(<<>>), ArrayLit(<<"io">>)},
      id \in {Absent, ArrayLit(<<"d1", "d2">>)},
      od \in {Absent, ArrayLit(<<>>), ArrayLit(<<"o">>)},
      va \in {Absent, ArrayLit(<<>>), ArrayLit(<<"v">>)} }

\* Extra bindings; "2" and "10" are names that are array indices.
BindingProps ==
  { Prop("cflags", Str("-O2")), Prop("pool", Str("")),
    Prop("2", Str("b")), Prop("10", Str("a")) }

\* Edges that vary dyndep, pool and the extra bindings.
BuildArgsBindings ==
  { <<Str("foo"), "cc", Str("bar"),
      OptionsLit(OptProp("dyndep", dd) \o OptProp("pool", po)), b>> :
      dd \in {Absent, Str(""), Str("dd")},
      po \in {Absent, Str(""), Str("link")},
      b \in {Undefined} \cup { ObjectLit(q) : q \in PropSeqs(BindingProps, MaxBindings) } }

AppendOneEdge ==
  \E a \in BuildArgsLists \cup BuildArgsBindings :
    nodes = <<>> /\ build(a[1], a[2], a[3], a[4], a[5])

NextEdge == AppendOneEdge \/ toString

SpecEdge == InitEmpty /\ [][NextEdge]_vars

\* A qualified group: nothing for no values, else " <marker> v1 v2 ...".
ExpectedGroup(marker, vals) ==
  IF vals = <<>> THEN "" ELSE " " \o marker \o " " \o Join(vals, " ")

EdgeOption(key) == GetProp(heap, nodes[1].options, key)

\* C6: the first line of an edge is `build <outputs>: <rule> <inputs>`, the
\* outputs being the plain outputs then the implicit-outputs group, the
\* inputs the plain inputs then the implicit, order-only and validations
\* groups; an empty or absent group renders as the empty string.
C6_BuildLine ==
  OneNodeWritten("Edge") =>
    LET n == nodes[1]
    IN calls[1].chunk =
         "build " \o Join(ValuesOf(heap, n.outputs), " ")
                  \o ExpectedGroup("|", ValuesOf(heap, EdgeOption("implicitOuts")))
         \o ": " \o n.rule \o " "
         \o Join(ValuesOf(heap, n.inputs), " ")
         \o ExpectedGroup("|", ValuesOf(heap, EdgeOption("implicitDeps")))
         \o ExpectedGroup("||", ValuesOf(heap, EdgeOption("orderDeps")))
         \o ExpectedGroup("|@", ValuesOf(heap, EdgeOption("validations")))
         \o "\n"

C6_Witness ==
  /\ OneNodeWritten("Edge")
  /\ ValuesOf(heap, nodes[1].outputs) = <<"a", "b">>
  /\ EdgeOption("implicitOuts") # Undefined
  /\ ValuesOf(heap, EdgeOption("implicitOuts")) = <<>>
  /\ EdgeOption("implicitDeps") = Undefined
  /\ ValuesOf(heap, EdgeOption("orderDeps")) = <<"o">>
  /\ calls[1].chunk = "build a b: cc bar || o |@ v\n"

ExpectedOptionLine(key, emit) ==
  IF emit THEN <<"  " \o key \o " = " \o EdgeOption(key).v \o "\n">> ELSE <<>>

DyndepPoolLines(emitDyndep, emitPool) ==
  LET want == ExpectedOptionLine("dyndep", emitDyndep) \o ExpectedOptionLine("pool", emitPool)
  IN /\ Len(calls) = 1 + Len(want) + Len(Supplied(heap, nodes[1].bindings))
     /\ SubSeq(Chunks(calls), 2, 1 + Len(want)) = want

\* C7 as stated: right after the build line a dyndep line, then a pool
\* line, each written exactly when the option was supplied.
C7_DyndepPoolWhenSupplied ==
  OneNodeWritten("Edge") =>
    DyndepPoolLines(EdgeOption("dyndep") # Undefined, EdgeOption("pool") # Undefined)

\* C7 amended: right after the build line a dyndep line, then a pool line,
\* each written exactly when the option was supplied with a non-empty
\* string; an option that is absent or the empty string writes no line.
C7_DyndepPoolWhenNonEmpty ==
  OneNodeWritten("Edge") =>
    DyndepPoolLines(EdgeOption("dyndep") \notin {Undefined, Str("")},
                    EdgeOption("pool") \notin {Undefined, Str("")})

C7_Witness ==
  /\ OneNodeWritten("Edge")
  /\ EdgeOption("dyndep") = Str("dd")
  /\ EdgeOption("pool") = Str("")
  /\ Len(Supplied(heap, nodes[1].bindings)) = 1
  /\ Len(calls) = 3
  /\ calls[2].chunk = "  dyndep = dd\n"

\* C8: every entry of the extra bindings is written as one indented line
\* after the dyndep and pool lines, in the order the entries were inserted.
C8_BindingsInInsertionOrder ==
  OneNodeWritten("Edge") =>
    LET ps == Supplied(heap, nodes[1].bindings)
        k == Len(ps)
    IN /\ Len(calls) >= 1 + k
       /\ SubSeq(Chunks(calls), Len(calls) - k + 1, Len(calls)) =
            [i \in 1..k |-> "  " \o ps[i].k \o " = " \o ps[i].v.v \o "\n"]

-----------------------------------------------------------------------------
(* escape (checked under SpecEscape).  A string is the sequence of its     *)
(* characters.                                                             *)

Chars == {"a", " ", ":", "$", "\n"}

Strings == UNION { [1..k -> Chars] : k \in 0..MaxLen }

\* the character class of the regular expression
EscapeClass == {" ", ":", "$", "\n"}

RECURSIVE escapeFirstMatchOnly(_)
escapeFirstMatchOnly(str) ==
  IF str = <<>> THEN <<>>
  ELSE IF Head(str) \in EscapeClass THEN <<"$", Head(str)>> \o Tail(str)
  ELSE <<Head(str)>> \o escapeFirstMatchOnly(Tail(str))

\* s.replace(/[ \:\$\n]/g, (match) => '$' + match)
RECURSIVE escape(_)
escape(str) ==
  IF str = <<>> THEN <<>>
  ELSE (IF Head(str) \in EscapeClass THEN <<"$", Head(str)>> ELSE <<Head(str)>>)
       \o escape(Tail(str))

InitEscape ==
  /\ input \in Strings
  /\ escaped = <<>>
  /\ last = "new"
  /\ heap = <<>> /\ options = Undefined /\ nodes = <<>> /\ ret = "none"
  /\ calls = NoSink /\ thrown = FALSE /\ out = "" /\ again = FALSE /\ nmut = 0

Escape ==
  /\ last = "new"
  /\ escaped' = escape(input)
  /\ last' = "escape"
  /\ UNCHANGED <<heap, options, nodes, ret, calls, thrown, out, again, nmut, input>>

NextEscape == Escape

SpecEscape == InitEscape /\ [][NextEscape]_vars

\* how many of the first i characters are space, colon, `$` or newline
SpecialsUpTo(str, i) ==
  Cardinality({j \in 1..i : str[j] = " " \/ str[j] = ":" \/ str[j] = "$" \/ str[j] = "\n"})

\* C9: the output is the input with one `$` inserted right before each
\* space, colon, `$` and newline, every character kept in place, so its
\* length is the input's plus the number of such characters; an input with
\* none of them is returned unchanged.
C9_Escape ==
  last = "escape" =>
    LET n == Len(input)
    IN /\ Len(escaped) = n + SpecialsUpTo(input, n)
       /\ \A i \in 1..n :
            LET at == i + SpecialsUpTo(input, i)
            IN /\ escaped[at] = input[i]
               /\ SpecialsUpTo(input, i) > SpecialsUpTo(input, i - 1) => escaped[at - 1] = "$"
       /\ SpecialsUpTo(input, n) = 0 => escaped = input

C9_Witness ==
  /\ last = "escape"
  /\ input = <<"a", " ", "$">>
  /\ escaped = <<"a", "$", " ", "$", "$">>

====
